---- MODULE Spec2Model ----
(***************************************************************************)
(* Model of pkg/deque.go: a doubly linked list deque with an optional      *)
(* capacity.  Nodes live in a heap `mem`; a deque is a header record       *)
(* (head, tail, len, capacity) pointing into it.  Every function of the    *)
(* source is an operator over (mem, header) that performs the source's     *)
(* pointer writes in the source's order and reports a nil dereference as   *)
(* a panic.                                                                *)
(***************************************************************************)
EXTENDS Integers, Sequences, FiniteSets, TLC

\* ------------------------------------------------------------------ bounds
MaxCap == 3
MaxVal == 1
MaxOps == 5
MaxRot == 2
MaxCopyOps == 5
MaxConcOps == 4
MaxExitOps == 3
MaxLiveOps == 5

\* --------------------------------------------------------------- constants
Nil == 0
Zero == 0
Unlimited == -1

NodeIds == 1..(2 * (MaxCap + MaxCopyOps - 1))
Elems == 0..MaxVal
Capacities == Unlimited..MaxCap
Steps == (-MaxRot)..MaxRot
Indices == (-1)..MaxCap
Seqs == UNION {[1..k -> Elems] : k \in 0..MaxOps}

Contexts == {"a", "b"}
NoCtx == "none"

Min(a, b) == IF a < b THEN a ELSE b
Abs(n) == IF n < 0 THEN -n ELSE n

VARIABLES
    mem,        \* the heap: NodeIds -> node
    dq,         \* the deques in existence: dq[1] the deque, dq[2] its copy
    panicked,   \* a nil dereference has aborted the program
    last,       \* the operation that ran last, with what it returned
    nops,       \* the number of operations called since construction
    budget,     \* the number of operations a run of the model may call
    mutex,      \* the context holding self.mutex, or NoCtx
    ctx,        \* where each context is in the method it is executing
    seen,       \* what the step just taken read of self.len without the lock
    serial,     \* the deque the calls so far make when run one at a time
    returned    \* the locking call that returned in the step just taken

vars == <<mem, dq, panicked, last, nops, budget, mutex, ctx, seen, serial, returned>>

\* ------------------------------------------------------------------- nodes
FreeNode == [value |-> Zero, next |-> Nil, prev |-> Nil, used |-> FALSE]

node(value, next, prev) == [value |-> value, next |-> next, prev |-> prev, used |-> TRUE]

\* The address the allocator hands out: the lowest cell not in use.
NewNodeId(m) == CHOOSE n \in NodeIds : ~m[n].used /\ \A k \in NodeIds : k < n => m[k].used

\* The nodes some deque still reaches, in the order a depth-first walk from
\* the heads and tails (next before prev) first meets them.
visit(m, todo, done) ==
    LET from[t \in Seq(NodeIds \cup {Nil}), d \in Seq(NodeIds)] ==
            IF t = <<>> THEN d
            ELSE LET n == Head(t)
                 IN  IF n = Nil \/ \E k \in DOMAIN d : d[k] = n
                     THEN from[Tail(t), d]
                     ELSE from[<<m[n].next, m[n].prev>> \o Tail(t), d \o <<n>>]
    IN  from[todo, done]

RECURSIVE roots(_)
roots(ds) ==
    IF ds = <<>> THEN <<>>
    ELSE <<Head(ds).head, Head(ds).tail>> \o roots(Tail(ds))

Live(m, ds) == visit(m, roots(ds), <<>>)

\* Garbage collection: a node no deque reaches through any link is gone.  A
\* node's address is not observable, so the surviving nodes are renumbered
\* in the order of Live.
addr(order, n) == IF n = Nil THEN Nil ELSE CHOOSE k \in DOMAIN order : order[k] = n

Collect(m, ds) ==
    LET order == Live(m, ds)
    IN  [mem |-> [k \in NodeIds |->
                    IF k \in DOMAIN order
                    THEN [m[order[k]] EXCEPT !.next = addr(order, @),
                                             !.prev = addr(order, @)]
                    ELSE FreeNode],
         dq  |-> [i \in DOMAIN ds |->
                    [ds[i] EXCEPT !.head = addr(order, @), !.tail = addr(order, @)]]]

\* ----------------------------------------------------------------- results
NoErr == "nil"

\* What a call did: the heap and the deque it left, the value and the error
\* it returned, whether it aborted the program (panic), and whether it never
\* returned (hang).
Ok(m, d) ==
    [mem |-> m, d |-> d, panic |-> FALSE, hang |-> FALSE, val |-> Zero, err |-> NoErr,
     idx |-> 0]
Val(m, d, v) == [Ok(m, d) EXCEPT !.val = v]
Panic(m, d) == [Ok(m, d) EXCEPT !.panic = TRUE]
\* A loop that never ends: the call does not return and does not abort.
Hang(m, d) == [Ok(m, d) EXCEPT !.hang = TRUE]
PopError(m, d) == [Ok(m, d) EXCEPT !.err = "PopError"]
PeekError(m, d, index) == [Ok(m, d) EXCEPT !.err = "PeekError", !.idx = index]

\* ------------------------------------------------------------ construction
NewDeque(capacity) == [head |-> Nil, tail |-> Nil, len |-> 0, capacity |-> capacity]

GetLen(d) == d.len
IsEmpty(d) == GetLen(d) = 0
GetCapacity(d) == d.capacity
IsUnlimited(d) == GetCapacity(d) < 0
\* A bug IsFull could have: reporting full only once the capacity is exceeded.
IsFullWhenOver(d) == ~IsUnlimited(d) /\ GetLen(d) > GetCapacity(d)

IsFull(d) == ~IsUnlimited(d) /\ GetLen(d) >= GetCapacity(d)
\* A bug append could have: evicting when the deque is merely full.
isOverflowingEarly(d) == ~IsUnlimited(d) /\ GetLen(d) >= GetCapacity(d)

isOverflowing(d) == ~IsUnlimited(d) /\ GetLen(d) > GetCapacity(d)

\* ---------------------------------------------------------------- removal
\* A bug tryPop could have: reporting a deque of one element as empty.
tryPopErrsAtOne(m, d) ==
    IF GetLen(d) <= 1 THEN PopError(m, d)
    ELSE LET oldTail == d.tail
         IN  IF oldTail = Nil THEN Panic(m, d)
             ELSE LET newTail == m[oldTail].prev
                  IN  IF newTail = Nil THEN Panic(m, d)
                      ELSE LET m1 == [m EXCEPT ![newTail].next = Nil]
                               m2 == [m1 EXCEPT ![oldTail].next = Nil,
                                                ![oldTail].prev = Nil]
                           IN  Ok(m2, [d EXCEPT !.tail = newTail, !.len = @ - 1])

tryPop(m, d) ==
    IF GetLen(d) = 0 THEN PopError(m, d)
    ELSE IF GetLen(d) = 1
    THEN Ok(m, [d EXCEPT !.head = Nil, !.tail = Nil, !.len = @ - 1])
    ELSE LET oldTail == d.tail
         IN  IF oldTail = Nil THEN Panic(m, d)
             ELSE LET newTail == m[oldTail].prev
                  IN  IF newTail = Nil THEN Panic(m, d)
                      ELSE LET m1 == [m EXCEPT ![newTail].next = Nil]
                               m2 == [m1 EXCEPT ![oldTail].next = Nil,
                                                ![oldTail].prev = Nil]
                           IN  Ok(m2, [d EXCEPT !.tail = newTail, !.len = @ - 1])

\* A bug tryPopLeft could have: removing the only element without clearing
\* head and tail.
tryPopLeftKeepsEnds(m, d) ==
    IF GetLen(d) = 0 THEN PopError(m, d)
    ELSE IF GetLen(d) = 1
    THEN Ok(m, [d EXCEPT !.len = @ - 1])
    ELSE IF d.head = Nil THEN Panic(m, d)
    ELSE LET newHead == m[d.head].next
         IN  IF newHead = Nil THEN Panic(m, d)
             ELSE Ok([m EXCEPT ![newHead].prev = Nil],
                     [d EXCEPT !.head = newHead, !.len = @ - 1])

\* A bug tryPopLeft could have: leaving the new head linked back to the node
\* that was removed.
tryPopLeftKeepsPrev(m, d) ==
    IF GetLen(d) = 0 THEN PopError(m, d)
    ELSE IF GetLen(d) = 1
    THEN Ok(m, [d EXCEPT !.head = Nil, !.tail = Nil, !.len = @ - 1])
    ELSE IF d.head = Nil THEN Panic(m, d)
    ELSE LET newHead == m[d.head].next
         IN  IF newHead = Nil THEN Panic(m, d)
             ELSE Ok(m, [d EXCEPT !.head = newHead, !.len = @ - 1])

tryPopLeft(m, d) ==
    IF GetLen(d) = 0 THEN PopError(m, d)
    ELSE IF GetLen(d) = 1
    THEN Ok(m, [d EXCEPT !.head = Nil, !.tail = Nil, !.len = @ - 1])
    ELSE IF d.head = Nil THEN Panic(m, d)
    ELSE LET newHead == m[d.head].next
         IN  IF newHead = Nil THEN Panic(m, d)
             ELSE Ok([m EXCEPT ![newHead].prev = Nil],
                     [d EXCEPT !.head = newHead, !.len = @ - 1])

\* --------------------------------------------------------------- insertion
\* A bug append could have: evicting from the end it inserts at.
appendEvictsRight(m, d, value) ==
    LET n == NewNodeId(m)
        m0 == [m EXCEPT ![n] = node(value, Nil, Nil)]
        linked ==
            IF GetLen(d) = 0 THEN Ok(m0, [d EXCEPT !.head = n, !.tail = n])
            ELSE IF d.tail = Nil THEN Panic(m0, d)
                 ELSE Ok([m0 EXCEPT ![n].prev = d.tail, ![d.tail].next = n],
                         [d EXCEPT !.tail = n])
    IN  IF linked.panic THEN linked
        ELSE LET d1 == [linked.d EXCEPT !.len = @ + 1]
             IN  IF isOverflowing(d1)
                 THEN LET r == tryPop(linked.mem, d1)
                      IN  IF r.panic THEN r ELSE Ok(r.mem, r.d)
                 ELSE Ok(linked.mem, d1)

append(m, d, value) ==
    LET n == NewNodeId(m)
        m0 == [m EXCEPT ![n] = node(value, Nil, Nil)]
        linked ==
            IF GetLen(d) = 0 THEN Ok(m0, [d EXCEPT !.head = n, !.tail = n])
            ELSE IF GetLen(d) = 1
            THEN IF d.head = Nil THEN Panic([m0 EXCEPT ![n].prev = d.head], d)
                 ELSE Ok([m0 EXCEPT ![n].prev = d.head, ![d.head].next = n],
                         [d EXCEPT !.tail = n])
            ELSE IF d.tail = Nil THEN Panic([m0 EXCEPT ![n].prev = d.tail], d)
                 ELSE Ok([m0 EXCEPT ![n].prev = d.tail, ![d.tail].next = n],
                         [d EXCEPT !.tail = n])
    IN  IF linked.panic THEN linked
        ELSE LET d1 == [linked.d EXCEPT !.len = @ + 1]
             IN  IF isOverflowing(d1)
                 THEN LET r == tryPopLeft(linked.mem, d1)
                      IN  IF r.panic THEN r ELSE Ok(r.mem, r.d)
                 ELSE Ok(linked.mem, d1)

appendLeft(m, d, value) ==
    LET n == NewNodeId(m)
        m0 == [m EXCEPT ![n] = node(value, Nil, Nil)]
        linked ==
            IF GetLen(d) = 0 THEN Ok(m0, [d EXCEPT !.head = n, !.tail = n])
            ELSE IF d.head = Nil THEN Panic([m0 EXCEPT ![n].next = d.head], d)
                 ELSE Ok([m0 EXCEPT ![n].next = d.head, ![d.head].prev = n],
                         [d EXCEPT !.head = n])
    IN  IF linked.panic THEN linked
        ELSE LET d1 == [linked.d EXCEPT !.len = @ + 1]
             IN  IF isOverflowing(d1)
                 THEN LET r == tryPop(linked.mem, d1)
                      IN  IF r.panic THEN r ELSE Ok(r.mem, r.d)
                 ELSE Ok(linked.mem, d1)

\* append and appendLeft in two steps, split where self.len has the value no
\* sequential caller can see: the insertion up to self.len++, and the
\* eviction after it.
appendLink(m, d, value) ==
    LET n == NewNodeId(m)
        m0 == [m EXCEPT ![n] = node(value, Nil, Nil)]
        linked ==
            IF GetLen(d) = 0 THEN Ok(m0, [d EXCEPT !.head = n, !.tail = n])
            ELSE IF GetLen(d) = 1
            THEN IF d.head = Nil THEN Panic([m0 EXCEPT ![n].prev = d.head], d)
                 ELSE Ok([m0 EXCEPT ![n].prev = d.head, ![d.head].next = n],
                         [d EXCEPT !.tail = n])
            ELSE IF d.tail = Nil THEN Panic([m0 EXCEPT ![n].prev = d.tail], d)
                 ELSE Ok([m0 EXCEPT ![n].prev = d.tail, ![d.tail].next = n],
                         [d EXCEPT !.tail = n])
    IN  IF linked.panic THEN linked
        ELSE Ok(linked.mem, [linked.d EXCEPT !.len = @ + 1])

appendEvict(m, d) ==
    IF isOverflowing(d)
    THEN LET r == tryPopLeft(m, d)
         IN  IF r.panic THEN r ELSE Ok(r.mem, r.d)
    ELSE Ok(m, d)

appendLeftLink(m, d, value) ==
    LET n == NewNodeId(m)
        m0 == [m EXCEPT ![n] = node(value, Nil, Nil)]
        linked ==
            IF GetLen(d) = 0 THEN Ok(m0, [d EXCEPT !.head = n, !.tail = n])
            ELSE IF d.head = Nil THEN Panic([m0 EXCEPT ![n].next = d.head], d)
                 ELSE Ok([m0 EXCEPT ![n].next = d.head, ![d.head].prev = n],
                         [d EXCEPT !.head = n])
    IN  IF linked.panic THEN linked
        ELSE Ok(linked.mem, [linked.d EXCEPT !.len = @ + 1])

appendLeftEvict(m, d) ==
    IF isOverflowing(d)
    THEN LET r == tryPop(m, d)
         IN  IF r.panic THEN r ELSE Ok(r.mem, r.d)
    ELSE Ok(m, d)

Clear(m, d) == Ok(m, [d EXCEPT !.head = Nil, !.tail = Nil, !.len = 0])

\* ------------------------------------------------------------------ lookup
\* n after `k` assignments n = n.next (forward) or n = n.prev; Nil as soon as
\* a step would dereference nil.
RECURSIVE walk(_, _, _, _)
walk(m, n, k, forward) ==
    IF n = Nil \/ k = 0 THEN n
    ELSE walk(m, IF forward THEN m[n].next ELSE m[n].prev, k - 1, forward)

\* A bug TryPeek could have: accepting the index one past the last element.
TryPeekPastEnd(m, d, index) ==
    IF index < 0 \/ index > GetLen(d) THEN PeekError(m, d, index)
    ELSE LET n == IF index < GetLen(d) \div 2
                  THEN walk(m, d.head, index, TRUE)
                  ELSE walk(m, d.tail, GetLen(d) - 1 - index, FALSE)
         IN  IF n = Nil THEN Panic(m, d) ELSE Val(m, d, m[n].value)

TryPeek(m, d, index) ==
    IF index < 0 \/ index >= GetLen(d) THEN PeekError(m, d, index)
    ELSE LET n == IF index < GetLen(d) \div 2
                  THEN walk(m, d.head, index, TRUE)
                  ELSE walk(m, d.tail, GetLen(d) - 1 - index, FALSE)
         IN  IF n = Nil THEN Panic(m, d) ELSE Val(m, d, m[n].value)

\* The sequence the iterator of Values() yields: the values along the next
\* links from head until nil.  `fuel` cuts the walk of a cyclic chain.
RECURSIVE valuesFrom(_, _, _)
valuesFrom(m, n, fuel) ==
    IF n = Nil \/ fuel = 0 THEN <<>>
    ELSE <<m[n].value>> \o valuesFrom(m, m[n].next, fuel - 1)

Values(m, d) == valuesFrom(m, d.head, Cardinality(NodeIds))

\* Whether the next links from n run into a cycle: a loop over them
\* (n != nil; n = n.next) then never ends.
RECURSIVE cyclic(_, _, _)
cyclic(m, n, fuel) ==
    IF n = Nil THEN FALSE
    ELSE IF fuel = 0 THEN TRUE
    ELSE cyclic(m, m[n].next, fuel - 1)

\* The number of nodes on the next chain from head that hold `value`; over a
\* chain that is a cycle the loop never ends and Count never returns.
Count(m, d, value) ==
    IF cyclic(m, d.head, Cardinality(NodeIds)) THEN Hang(m, d)
    ELSE LET s == Values(m, d)
         IN  Val(m, d, Cardinality({i \in DOMAIN s : s[i] = value}))

\* ---------------------------------------------------------------- rotation
rotateRight(m, d) ==
    LET tail == d.tail
    IN  IF tail = Nil THEN Panic(m, d)
        ELSE LET m1 == [m EXCEPT ![tail].next = d.head]
                 d1 == [d EXCEPT !.tail = m1[tail].prev]
             IN  IF d1.tail = Nil THEN Panic(m1, d1)
                 ELSE LET m2 == [m1 EXCEPT ![d1.tail].next = Nil]
                          m3 == [m2 EXCEPT ![tail].prev = Nil]
                      IN  Ok(m3, [d1 EXCEPT !.head = tail])

rotateLeft(m, d) ==
    LET head == d.head
    IN  IF head = Nil THEN Panic(m, d)
        ELSE LET d1 == [d EXCEPT !.head = m[head].next]
                 m1 == [m EXCEPT ![head].next = Nil]
                 tail == d1.tail
             IN  IF tail = Nil THEN Panic(m1, d1)
                 ELSE Ok([m1 EXCEPT ![tail].next = head], [d1 EXCEPT !.tail = head])

RECURSIVE doRotations(_, _, _, _)
doRotations(m, d, right, k) ==
    IF k = 0 THEN Ok(m, d)
    ELSE LET r == IF right THEN rotateRight(m, d) ELSE rotateLeft(m, d)
         IN  IF r.panic THEN r ELSE doRotations(r.mem, r.d, right, k - 1)

Rotate(m, d, n) ==
    IF GetLen(d) < 2 THEN Ok(m, d)
    ELSE doRotations(m, d, n >= 0, Abs(n))

\* -------------------------------------------------------------------- copy
RECURSIVE appendAll(_, _, _)
appendAll(m, d, s) ==
    IF s = <<>> THEN Ok(m, d)
    ELSE LET r == append(m, d, Head(s))
         IN  IF r.panic THEN r ELSE appendAll(r.mem, r.d, Tail(s))

\* Over a chain of next links that is a cycle the loop of Copy never ends.
\* Into a bounded copy every append past the capacity evicts a node, so the
\* loop runs for ever; into an unlimited copy it allocates nodes until the
\* runtime aborts the program.
Copy(m, d) ==
    IF cyclic(m, d.head, Cardinality(NodeIds))
    THEN IF IsUnlimited(NewDeque(d.capacity)) THEN Panic(m, NewDeque(d.capacity))
         ELSE Hang(m, NewDeque(d.capacity))
    ELSE appendAll(m, NewDeque(d.capacity), Values(m, d))

NewDequeFromSeq(m, s, capacity) == appendAll(m, NewDeque(capacity), s)

\* ----------------------------------------------------------------- actions
NoSeq == <<>>

\* A call of `op` (on deque i) that ran as `r` and left the deques `ds`.  After
\* a call that never returns the caller makes no other call.
Finish(ds, r, op, i, arg, s) ==
    /\ ~last.hang
    /\ nops < budget
    /\ nops' = nops + 1
    /\ budget' = budget
    /\ LET c == Collect(r.mem, ds)
       IN  mem' = c.mem /\ dq' = c.dq
    /\ panicked' = r.panic
    /\ last' = [op |-> op, on |-> i, arg |-> arg, val |-> r.val, err |-> r.err,
                idx |-> r.idx, seq |-> s, hang |-> r.hang]
    /\ UNCHANGED <<mutex, ctx, seen, serial, returned>>

Done(i, r, op, arg) == Finish([dq EXCEPT ![i] = r.d], r, op, i, arg, NoSeq)

AppendAct ==
    \E i \in DOMAIN dq, v \in Elems :
        /\ ~panicked
        /\ Done(i, append(mem, dq[i], v), "Append", v)

AppendLeftAct ==
    \E i \in DOMAIN dq, v \in Elems :
        /\ ~panicked
        /\ Done(i, appendLeft(mem, dq[i], v), "AppendLeft", v)

TryPopAct ==
    \E i \in DOMAIN dq :
        /\ ~panicked
        /\ Done(i, tryPop(mem, dq[i]), "TryPop", 0)

TryPopLeftAct ==
    \E i \in DOMAIN dq :
        /\ ~panicked
        /\ Done(i, tryPopLeft(mem, dq[i]), "TryPopLeft", 0)

ClearAct ==
    \E i \in DOMAIN dq :
        /\ ~panicked
        /\ Done(i, Clear(mem, dq[i]), "Clear", 0)

TryPeekAct ==
    \E i \in DOMAIN dq, index \in Indices :
        /\ ~panicked
        /\ Done(i, TryPeek(mem, dq[i], index), "TryPeek", index)

RotateAct ==
    \E i \in DOMAIN dq, n \in Steps :
        /\ ~panicked
        /\ Done(i, Rotate(mem, dq[i], n), "Rotate", n)

\* q.Count(value).
CountAct ==
    \E i \in DOMAIN dq, v \in Elems :
        /\ ~panicked
        /\ Done(i, Count(mem, dq[i], v), "Count", v)

\* nq := q.Copy(): the copy becomes dq[2]; a Copy that never returns leaves
\* no copy.
CopyAct ==
    /\ ~panicked
    /\ Len(dq) = 1
    /\ LET r == Copy(mem, dq[1])
       IN  Finish(IF r.hang THEN dq ELSE dq \o <<r.d>>, r, "Copy", 1, 0, NoSeq)

\* q := NewDequeFromSeq(seq, capacity): the first deque made.
NewDequeFromSeqAct ==
    \E s \in Seqs, c \in Capacities :
        /\ ~panicked
        /\ Len(dq) = 0
        /\ LET r == NewDequeFromSeq(mem, s, c)
           IN  Finish(<<r.d>>, r, "NewDequeFromSeq", 1, c, s)

NoOp == [op |-> "NewDeque", on |-> 1, arg |-> 0, val |-> Zero, err |-> NoErr,
         idx |-> 0, seq |-> NoSeq, hang |-> FALSE]

\* A context that is in no method of the deque.
Idle == [at |-> "idle", op |-> "none", arg |-> 0, item |-> Nil, out |-> <<>>,
         from |-> <<>>, err |-> NoErr, early |-> FALSE]

\* No call returned in the step just taken.
NoReturn == [by |-> NoCtx, call |-> Idle, held |-> FALSE]

NoRead == [by |-> NoCtx, op |-> "none", len |-> 0, locked |-> FALSE, during |-> FALSE]

\* Nothing allocated, nothing called, the mutex free.
Fresh ==
    /\ mem = [n \in NodeIds |-> FreeNode]
    /\ panicked = FALSE
    /\ last = NoOp
    /\ nops = 0
    /\ mutex = NoCtx
    /\ ctx = [c \in Contexts |-> Idle]
    /\ seen = NoRead
    /\ returned = NoReturn

Start ==
    /\ Fresh
    /\ serial = <<>>

\* After q := NewDeque(c).
Init ==
    /\ Start
    /\ \E c \in Capacities : dq = <<NewDeque(c)>>
    /\ budget = MaxOps

Ops ==
    \/ AppendAct
    \/ AppendLeftAct
    \/ TryPopAct
    \/ TryPopLeftAct
    \/ ClearAct
    \/ TryPeekAct
    \/ RotateAct
    \/ CountAct

Next == Ops

Spec == Init /\ [][Next]_vars

\* Every operation, on a deque made with any capacity: NewDeque takes any int,
\* and every negative one makes the deque unlimited.
InitAnyCapacity ==
    /\ Start
    /\ \E c \in (Unlimited - 1)..MaxCap : dq = <<NewDeque(c)>>
    /\ budget = MaxOps

SpecAnyCapacity == InitAnyCapacity /\ [][Next]_vars

\* Insertions, removals and Clear: every operation that changes the deque
\* except Rotate.
NextNoRotate ==
    \/ AppendAct
    \/ AppendLeftAct
    \/ TryPopAct
    \/ TryPopLeftAct
    \/ ClearAct

SpecNoRotate == Init /\ [][NextNoRotate]_vars

\* Insertions only, into a new deque.
NextAppend ==
    \/ AppendAct
    \/ AppendLeftAct

SpecAppend == Init /\ [][NextAppend]_vars

\* A deque and, once Copy is called, its copy.  The deque is the one after
\* q := NewDequeFromSeq(seq, c), seq up to MaxCap zeros.
InitCopy ==
    /\ panicked = FALSE
    /\ last = NoOp
    /\ nops = 0
    /\ mutex = NoCtx
    /\ ctx = [c \in Contexts |-> Idle]
    /\ seen = NoRead
    /\ returned = NoReturn
    /\ serial = <<>>
    /\ \E c \in Capacities, k \in 0..MaxCap :
          LET r == NewDequeFromSeq([n \in NodeIds |-> FreeNode], [j \in 1..k |-> Zero], c)
              g == Collect(r.mem, <<r.d>>)
          IN  mem = g.mem /\ dq = g.dq
    /\ budget = MaxCopyOps

NextCopy ==
    \/ AppendAct
    \/ AppendLeftAct
    \/ TryPopAct
    \/ TryPopLeftAct
    \/ ClearAct
    \/ RotateAct
    \/ CountAct
    \/ CopyAct

SpecCopy == InitCopy /\ [][NextCopy]_vars

\* Construction from a sequence.
InitSeq ==
    /\ Start
    /\ dq = <<>>
    /\ budget = MaxOps

NextSeq == NewDequeFromSeqAct

SpecSeq == InitSeq /\ [][NextSeq]_vars

\* ------------------------------------------------------------- concurrency
\* Two contexts call methods of one deque.  A method that locks is entered
\* (Call), waits in self.mutex.Lock() until the mutex is free (Enter,
\* ValuesStart), runs its body and returns through the deferred Unlock.  The
\* body of a method is one step, except that of Append and AppendLeft, which
\* is two (self.len is capacity + 1 in between), and the loop of Values(),
\* which is one step per element.  GetLen, IsEmpty and IsFull take no lock:
\* they are one step that reads self.len whatever the other context is doing.
Mutators == {"Append", "AppendLeft", "TryPop", "TryPopLeft", "Clear", "Rotate"}
Readers == {"GetLen", "IsEmpty", "IsFull"}
\* The methods that are self.mutex.Lock(), defer self.mutex.Unlock(), body.
Lockers == Mutators \cup {"TryPeek"}

Args(op) ==
    IF op \in {"Append", "AppendLeft"} THEN Elems
    ELSE IF op = "Rotate" THEN Steps
    ELSE IF op = "TryPeek" THEN Indices
    ELSE {0}

\* The body of a mutating method, run from start to end.
Run(m, d, op, arg) ==
    CASE op = "Append" -> append(m, d, arg)
      [] op = "AppendLeft" -> appendLeft(m, d, arg)
      [] op = "TryPop" -> tryPop(m, d)
      [] op = "TryPopLeft" -> tryPopLeft(m, d)
      [] op = "Clear" -> Clear(m, d)
      [] op = "Rotate" -> Rotate(m, d, arg)
      [] op = "TryPeek" -> TryPeek(m, d, arg)

\* `serial` takes one more call: the whole method run on it.
RunSerial(op, arg) ==
    \E x \in {Run(serial.mem, serial.d, op, arg)} :
        \E g \in {Collect(x.mem, <<x.d>>)} :
            serial' = IF serial.panic THEN serial
                      ELSE [mem |-> g.mem, d |-> g.dq[1], panic |-> x.panic]

\* Between self.mutex.Lock() returning and the deferred Unlock.
Inside == {"insert", "evict", "body", "iter", "unlock"}

At(c, at) == [ctx EXCEPT ![c].at = at]

\* The step of context c that ran as r and leaves c at `at`.  A nil
\* dereference aborts the program.
Step(c, r, at) ==
    /\ \E x \in {r} : \E g \in {Collect(x.mem, <<x.d>>)} :
          /\ mem' = g.mem
          /\ dq' = g.dq
          /\ panicked' = x.panic
          /\ ctx' = [ctx EXCEPT ![c].at = at, ![c].err = x.err,
                                 ![c].early = (ctx[c].op = "Rotate" /\ GetLen(dq[1]) < 2)]
    /\ seen' = NoRead
    /\ returned' = NoReturn
    /\ UNCHANGED <<last, nops, budget, mutex, serial>>

\* c calls a method that locks, and arrives at self.mutex.Lock().
Call(c) ==
    \E op \in Mutators \cup {"Values"} : \E arg \in Args(op) :
        /\ ~panicked
        /\ nops < budget
        /\ ctx[c].at = "idle"
        /\ ctx' = [ctx EXCEPT ![c] = [Idle EXCEPT !.at = "lock", !.op = op, !.arg = arg]]
        /\ nops' = nops + 1
        /\ seen' = NoRead
        /\ returned' = NoReturn
        /\ UNCHANGED <<mem, dq, panicked, last, budget, mutex, serial>>

\* c calls TryPeek, and arrives at self.mutex.Lock().
CallPeek(c) ==
    \E index \in Args("TryPeek") :
        /\ ~panicked
        /\ nops < budget
        /\ ctx[c].at = "idle"
        /\ ctx' = [ctx EXCEPT ![c] = [Idle EXCEPT !.at = "lock", !.op = "TryPeek",
                                                   !.arg = index]]
        /\ nops' = nops + 1
        /\ seen' = NoRead
        /\ returned' = NoReturn
        /\ UNCHANGED <<mem, dq, panicked, last, budget, mutex, serial>>

\* sync.Mutex.Lock: returns once the mutex is free, and then c holds it.
Lock(c) ==
    /\ mutex = NoCtx
    /\ mutex' = c

\* A bug the methods could have: going on without the mutex.
EnterWithoutLock(c) ==
    /\ ~panicked
    /\ ctx[c].at = "lock"
    /\ ctx[c].op \in Lockers
    /\ mutex' = c
    /\ ctx' = At(c, IF ctx[c].op \in {"Append", "AppendLeft"} THEN "insert" ELSE "body")
    /\ RunSerial(ctx[c].op, ctx[c].arg)
    /\ seen' = NoRead
    /\ returned' = NoReturn
    /\ UNCHANGED <<mem, dq, panicked, last, nops, budget>>

\* c gets the mutex in a mutating method.  From here on the method is in
\* its critical section; `serial` runs the whole method at this point.
Enter(c) ==
    /\ ~panicked
    /\ ctx[c].at = "lock"
    /\ ctx[c].op \in Lockers
    /\ Lock(c)
    /\ ctx' = At(c, IF ctx[c].op \in {"Append", "AppendLeft"} THEN "insert" ELSE "body")
    /\ RunSerial(ctx[c].op, ctx[c].arg)
    /\ seen' = NoRead
    /\ returned' = NoReturn
    /\ UNCHANGED <<mem, dq, panicked, last, nops, budget>>

\* append / appendLeft up to self.len++.
Insert(c) ==
    /\ ~panicked
    /\ ctx[c].at = "insert"
    /\ Step(c, IF ctx[c].op = "Append" THEN appendLink(mem, dq[1], ctx[c].arg)
                ELSE appendLeftLink(mem, dq[1], ctx[c].arg), "evict")

\* The rest of append / appendLeft: the eviction when the deque overflows.
Evict(c) ==
    /\ ~panicked
    /\ ctx[c].at = "evict"
    /\ Step(c, IF ctx[c].op = "Append" THEN appendEvict(mem, dq[1])
                ELSE appendLeftEvict(mem, dq[1]), "unlock")

\* The body of TryPop, TryPopLeft, Clear, Rotate or TryPeek.
Body(c) ==
    /\ ~panicked
    /\ ctx[c].at = "body"
    /\ Step(c, Run(mem, dq[1], ctx[c].op, ctx[c].arg), "unlock")

\* A bug Values() could have: iterating without the mutex.
ValuesStartWithoutLock(c) ==
    /\ ~panicked
    /\ ctx[c].at = "lock"
    /\ ctx[c].op = "Values"
    /\ ctx' = [ctx EXCEPT ![c].at = "iter", ![c].item = dq[1].head,
                           ![c].from = Values(mem, dq[1])]
    /\ seen' = NoRead
    /\ returned' = NoReturn
    /\ UNCHANGED <<mem, dq, panicked, last, nops, budget, mutex, serial>>

\* The consumer starts the iterator of Values(): it takes the mutex, and
\* item := self.head.
ValuesStart(c) ==
    /\ ~panicked
    /\ ctx[c].at = "lock"
    /\ ctx[c].op = "Values"
    /\ Lock(c)
    /\ ctx' = [ctx EXCEPT ![c].at = "iter", ![c].item = dq[1].head,
                           ![c].from = Values(mem, dq[1])]
    /\ seen' = NoRead
    /\ returned' = NoReturn
    /\ UNCHANGED <<mem, dq, panicked, last, nops, budget, serial>>

\* One turn of the loop: yield(item.value); the consumer asks for more
\* (item = item.next) or abandons the iteration (return).  `out` records the
\* values yielded, the first Cardinality(NodeIds) of them: a chain that is
\* not a cycle has no more.
Yield(c) ==
    \E more \in BOOLEAN :
        /\ ~panicked
        /\ ctx[c].at = "iter"
        /\ ctx[c].item # Nil
        /\ ctx' = [ctx EXCEPT ![c].out = IF Len(@) < Cardinality(NodeIds)
                                            THEN @ \o <<mem[ctx[c].item].value>>
                                            ELSE @,
                               ![c].item = IF more THEN mem[@].next ELSE @,
                               ![c].at = IF more THEN "iter" ELSE "unlock"]
        /\ seen' = NoRead
        /\ returned' = NoReturn
        /\ UNCHANGED <<mem, dq, panicked, last, nops, budget, mutex, serial>>

\* item == nil: the loop is over.
LoopEnd(c) ==
    /\ ~panicked
    /\ ctx[c].at = "iter"
    /\ ctx[c].item = Nil
    /\ ctx' = At(c, "unlock")
    /\ seen' = NoRead
    /\ returned' = NoReturn
    /\ UNCHANGED <<mem, dq, panicked, last, nops, budget, mutex, serial>>

\* A bug the methods could have: unlocking before the normal return only,
\* so that a return with an error keeps the mutex.
UnlockUnlessError(c) ==
    /\ ~panicked
    /\ ctx[c].at = "unlock"
    /\ mutex' = IF ctx[c].err = NoErr THEN NoCtx ELSE mutex
    /\ ctx' = [ctx EXCEPT ![c] = Idle]
    /\ seen' = NoRead
    /\ returned' = [by |-> c, call |-> ctx[c], held |-> mutex = c]
    /\ UNCHANGED <<mem, dq, panicked, last, nops, budget, serial>>

\* The deferred self.mutex.Unlock(), and the return.
Unlock(c) ==
    /\ ~panicked
    /\ ctx[c].at = "unlock"
    /\ mutex' = NoCtx
    /\ ctx' = [ctx EXCEPT ![c] = Idle]
    /\ seen' = NoRead
    /\ returned' = [by |-> c, call |-> ctx[c], held |-> mutex = c]
    /\ UNCHANGED <<mem, dq, panicked, last, nops, budget, serial>>

\* c calls GetLen, IsEmpty or IsFull: no lock, one read of self.len.
ReadLen(c) ==
    \E op \in Readers :
        /\ ~panicked
        /\ nops < budget
        /\ ctx[c].at = "idle"
        /\ nops' = nops + 1
        /\ seen' = [by |-> c, op |-> op, len |-> GetLen(dq[1]),
                    locked |-> mutex = c,
                    during |-> \E o \in Contexts \ {c} :
                                  ctx[o].at \in Inside /\ ctx[o].op \in Mutators]
        /\ UNCHANGED <<mem, dq, panicked, last, budget, mutex, ctx, serial>>
        /\ returned' = NoReturn

InitConcurrent ==
    /\ Fresh
    /\ \E c \in Capacities :
          /\ dq = <<NewDeque(c)>>
          /\ serial = [mem |-> mem, d |-> NewDeque(c), panic |-> FALSE]
    /\ budget = MaxConcOps

NextConcurrent ==
    \E c \in Contexts :
        \/ Call(c)
        \/ Enter(c)
        \/ Insert(c)
        \/ Evict(c)
        \/ Body(c)
        \/ ValuesStart(c)
        \/ Yield(c)
        \/ LoopEnd(c)
        \/ Unlock(c)
        \/ ReadLen(c)

SpecConcurrent == InitConcurrent /\ [][NextConcurrent]_vars

\* The same, with TryPeek among the methods called.
InitExits ==
    /\ Fresh
    /\ \E c \in Capacities :
          /\ dq = <<NewDeque(c)>>
          /\ serial = [mem |-> mem, d |-> NewDeque(c), panic |-> FALSE]
    /\ budget = MaxExitOps

NextExits ==
    \/ NextConcurrent
    \/ \E c \in Contexts : CallPeek(c)

SpecExits == InitExits /\ [][NextExits]_vars

\* The contexts under fair scheduling: a context that can take a step of the
\* method it is in takes one, and a context waiting in Lock() gets the mutex
\* if it is free again and again (sync.Mutex hands the mutex to a waiter that
\* has starved).  The calls are the ones that remove, rotate and iterate.
LiveOps == {"TryPop", "Rotate", "Values"}

CallLive(c) ==
    \E op \in LiveOps : \E arg \in Args(op) :
        /\ ~panicked
        /\ nops < budget
        /\ ctx[c].at = "idle"
        /\ ctx' = [ctx EXCEPT ![c] = [Idle EXCEPT !.at = "lock", !.op = op, !.arg = arg]]
        /\ nops' = nops + 1
        /\ seen' = NoRead
        /\ returned' = NoReturn
        /\ UNCHANGED <<mem, dq, panicked, last, budget, mutex, serial>>

\* After q := NewDequeFromSeq(seq, -1), seq up to MaxCap zeros.
InitLive ==
    /\ panicked = FALSE
    /\ last = NoOp
    /\ nops = 0
    /\ mutex = NoCtx
    /\ ctx = [c \in Contexts |-> Idle]
    /\ seen = NoRead
    /\ returned = NoReturn
    /\ \E k \in 0..MaxCap :
          LET r == NewDequeFromSeq([n \in NodeIds |-> FreeNode], [j \in 1..k |-> Zero],
                                   Unlimited)
          IN  /\ mem = r.mem
              /\ dq = <<r.d>>
              /\ serial = [mem |-> r.mem, d |-> r.d, panic |-> FALSE]
    /\ budget = MaxLiveOps

\* The steps of TryPop, Rotate and Values() between Lock() and Unlock().
Runs(c) ==
    \/ Body(c)
    \/ Yield(c)
    \/ LoopEnd(c)
    \/ Unlock(c)

Acquires(c) ==
    \/ Enter(c)
    \/ ValuesStart(c)

NextLive ==
    \E c \in Contexts :
        \/ CallLive(c)
        \/ Acquires(c)
        \/ Runs(c)

Fairness ==
    \A c \in Contexts : WF_vars(Runs(c)) /\ SF_vars(Acquires(c))

SpecLive == InitLive /\ [][NextLive]_vars /\ Fairness

\* ------------------------------------------------------------------ claims
\* The deque an operation was called on, before and after the call.
Contents(i) == Values(mem, dq[i])

\* s rotated n steps to the right (to the left when n < 0).
RotSeq(s, n) == [j \in 1..Len(s) |-> s[((j - 1 - n) % Len(s)) + 1]]

\* C1: on a non-empty deque TryPop returns, with a nil error, the value that
\* was at the tail and TryPopLeft the value that was at the head, and the
\* length decreases by exactly one.
C1_PopReturnsEnd ==
    [][LET i == last'.on
           d == dq[i]
       IN  (last'.op \in {"TryPop", "TryPopLeft"} /\ d.len > 0
                /\ d.head # Nil /\ d.tail # Nil)
           => /\ ~panicked'
              /\ last'.err = NoErr
              /\ last'.val = IF last'.op = "TryPop" THEN mem[d.tail].value
                                                    ELSE mem[d.head].value
              /\ dq'[i].len = d.len - 1]_vars

\* C2: in every state reached by Append, AppendLeft, TryPop, TryPopLeft,
\* Rotate and Clear, TryPeek(i) with 0 <= i < GetLen() returns without error
\* the element Values() yields at position i.
C2_PeekReturnsIth ==
    (last.op = "TryPeek" /\ last.arg >= 0 /\ last.arg < dq[1].len)
    => /\ ~panicked
       /\ last.err = NoErr
       /\ last.arg + 1 \in DOMAIN Contents(1)
       /\ last.val = Contents(1)[last.arg + 1]

\* C3: on a full bounded deque of capacity C >= 1 holding [x0..x(C-1)],
\* Append(v) leaves [x1..x(C-1), v] and AppendLeft(v) leaves [v, x0..x(C-2)].
C3_FullAppendEvicts ==
    [][LET i == last'.on
           d == dq[i]
           x == Values(mem, d)
           v == last'.arg
       IN  (last'.op \in {"Append", "AppendLeft"} /\ d.capacity >= 1
                /\ d.len = d.capacity /\ Len(x) = d.capacity)
           => /\ ~panicked'
              /\ Values(mem', dq'[i]) =
                    IF last'.op = "Append" THEN Tail(x) \o <<v>>
                    ELSE <<v>> \o SubSeq(x, 1, Len(x) - 1)]_vars

\* C4: after N insertions (any mix of Append and AppendLeft) into a new deque
\* GetLen() is min(N, C) when the deque is bounded and N when it is not,
\* after each insertion.
C4_LenIsMinNC ==
    /\ ~panicked
    /\ GetLen(dq[1]) = IF IsUnlimited(dq[1]) THEN nops
                       ELSE Min(nops, GetCapacity(dq[1]))

C4_Witness ==
    /\ last.op \in {"Append", "AppendLeft"}
    /\ GetCapacity(dq[1]) >= 1
    /\ nops > GetCapacity(dq[1])
    /\ GetLen(dq[1]) = GetCapacity(dq[1])

\* C5: on a deque of length L >= 2, Rotate(n) completes and leaves the
\* elements as |n| mod L single steps in the direction of n's sign leave them.
C5_RotateIsModular ==
    [][LET i == last'.on
           d == dq[i]
           x == Values(mem, d)
       IN  (last'.op = "Rotate" /\ d.len >= 2 /\ Len(x) = d.len)
           => /\ ~panicked'
              /\ Values(mem', dq'[i]) = RotSeq(x, last'.arg)]_vars

\* C6: on a deque of length >= 2, Rotate(1) followed by Rotate(-1) restores
\* the order: Values() and every TryPeek(i), 0 <= i < GetLen(), return what
\* they returned before the two calls.
C6_RotateRoundTrip ==
    (~panicked /\ dq[1].len >= 2)
    => LET r1 == Rotate(mem, dq[1], 1)
           r2 == Rotate(r1.mem, r1.d, -1)
       IN  /\ ~r1.panic
           /\ ~r2.panic
           /\ Values(r2.mem, r2.d) = Contents(1)
           /\ \A k \in 0..(dq[1].len - 1) :
                 LET before == TryPeek(mem, dq[1], k)
                     after == TryPeek(r2.mem, r2.d, k)
                 IN  /\ after.panic = before.panic
                     /\ after.err = before.err
                     /\ after.val = before.val

\* C7: on a deque holding [x0..xk], k >= 1, Rotate(1) produces
\* [xk, x0..x(k-1)] and Rotate(-1) produces [x1..xk, x0]; the length is
\* unchanged.
C7_RotateOneStep ==
    [][LET i == last'.on
           d == dq[i]
           x == Values(mem, d)
       IN  (last'.op = "Rotate" /\ last'.arg \in {1, -1} /\ d.len >= 2
                /\ Len(x) = d.len)
           => /\ ~panicked'
              /\ dq'[i].len = d.len
              /\ Values(mem', dq'[i]) =
                    IF last'.arg = 1 THEN <<x[Len(x)]>> \o SubSeq(x, 1, Len(x) - 1)
                    ELSE Tail(x) \o <<x[1]>>]_vars

\* C8: no operation other than Peek with an index out of range aborts: every
\* call of Append, AppendLeft, TryPop, TryPopLeft, TryPeek, Count, Clear and Rotate
\* completes or returns an error value.
C8_NoAbort == ~panicked

\* C9: Copy() returns a deque of the same capacity, length and elements, and
\* after it an operation on either deque leaves the length and the elements
\* of the other unchanged.
C9_CopyEqualAndIndependent ==
    [][/\ last'.op = "Copy"
          => /\ ~panicked'
             /\ ~last'.hang
             /\ dq'[1].len = dq[1].len
             /\ Values(mem', dq'[1]) = Contents(1)
             /\ dq'[2].capacity = dq'[1].capacity
             /\ dq'[2].len = dq'[1].len
             /\ Values(mem', dq'[2]) = Values(mem', dq'[1])
       /\ Len(dq) = 2
          => LET o == 3 - last'.on
             IN  /\ dq'[o].len = dq[o].len
                 /\ Values(mem', dq'[o]) = Contents(o)]_vars

\* C10: NewDequeFromSeq(s, C), s of length N, holds all of s in order when
\* the deque is unbounded or N <= C, the last C elements of s in order when
\* C is bounded and C < N, and reports capacity C.
C10_FromSeqKeepsLast ==
    last.op = "NewDequeFromSeq"
    => LET s == last.seq
           c == last.arg
           n == Len(s)
       IN  /\ ~panicked
           /\ GetCapacity(dq[1]) = c
           /\ Contents(1) = IF c < 0 \/ n <= c THEN s ELSE SubSeq(s, n - c + 1, n)
           /\ GetLen(dq[1]) = Len(Contents(1))

C10_Witness ==
    /\ last.op = "NewDequeFromSeq"
    /\ last.arg >= 1
    /\ last.arg < Len(last.seq)
    /\ GetLen(dq[1]) = last.arg

\* C11: TryPop and TryPopLeft return a PopError exactly when the length is 0
\* at the call, and such a call leaves the deque as it was: length 0, head and
\* tail nil, the capacity unchanged, and an Append after it does what it does
\* on a new deque of that capacity.
C11_PopErrorIffEmpty ==
    [][LET i == last'.on
           d == dq[i]
       IN  last'.op \in {"TryPop", "TryPopLeft"}
           => /\ (last'.err = "PopError") <=> (d.len = 0)
              /\ d.len = 0
                 => /\ ~panicked'
                    /\ dq'[i] = d
                    /\ mem' = mem
                    /\ dq'[i] = NewDeque(d.capacity)
                    /\ \A v \in Elems :
                          append(mem', dq'[i], v)
                            = append([n \in NodeIds |-> FreeNode], NewDeque(d.capacity), v)]_vars

C11_Witness ==
    /\ last.op \in {"TryPop", "TryPopLeft"}
    /\ last.err = "PopError"
    /\ nops >= 3
    /\ dq[1].capacity >= 1

\* C12: TryPeek(i) returns a PeekError carrying i exactly when i < 0 or
\* i >= GetLen() (so for every index on an empty deque), and such a call
\* changes neither head, tail, length nor any link.
C12_PeekErrorIffOutOfRange ==
    [][LET i == last'.on
           d == dq[i]
       IN  last'.op = "TryPeek"
           => /\ (last'.err = "PeekError") <=> (last'.arg < 0 \/ last'.arg >= GetLen(d))
              /\ last'.err = "PeekError"
                 => /\ last'.idx = last'.arg
                    /\ ~panicked'
                    /\ dq' = dq
                    /\ mem' = mem]_vars

C12_Witness ==
    /\ last.op = "TryPeek"
    /\ last.err = "PeekError"
    /\ last.idx = GetLen(dq[1])
    /\ GetLen(dq[1]) >= 2

\* C13: in every state the public operations reach, IsFull() of a bounded
\* deque is true exactly when GetLen() = GetCapacity(), and IsFull() of an
\* unbounded deque (capacity -1 or any other negative capacity) is false.
C13_FullIffLenIsCapacity ==
    ~panicked
    => \A i \in DOMAIN dq :
          IF GetCapacity(dq[i]) >= 0
          THEN IsFull(dq[i]) <=> (GetLen(dq[i]) = GetCapacity(dq[i]))
          ELSE ~IsFull(dq[i])

C13_Witness ==
    /\ ~panicked
    /\ GetCapacity(dq[1]) >= 1
    /\ IsFull(dq[1])
    /\ nops > GetCapacity(dq[1])

\* C14: on a deque of capacity 0, after each call of any run of Append and
\* AppendLeft calls, GetLen() = 0 and head and tail are both nil.
C14_CapacityZeroStaysEmpty ==
    GetCapacity(dq[1]) = 0
    => /\ ~panicked
       /\ GetLen(dq[1]) = 0
       /\ dq[1].head = Nil
       /\ dq[1].tail = Nil

C14_Witness ==
    /\ GetCapacity(dq[1]) = 0
    /\ last.op = "AppendLeft"
    /\ nops >= 3
    /\ IsEmpty(dq[1])

\* The nodes met from n along the next links (forward) or the prev links,
\* until nil.
RECURSIVE chain(_, _, _, _)
chain(m, n, forward, fuel) ==
    IF n = Nil \/ fuel = 0 THEN <<>>
    ELSE <<n>> \o chain(m, IF forward THEN m[n].next ELSE m[n].prev, forward, fuel - 1)

Reverse(s) == [j \in 1..Len(s) |-> s[Len(s) + 1 - j]]

WellFormed(m, d) ==
    /\ (d.len = 0) <=> (d.head = Nil /\ d.tail = Nil)
    /\ d.len >= 2
       => /\ d.head # Nil
          /\ d.tail # Nil
          /\ m[d.head].prev = Nil
          /\ m[d.tail].next = Nil
          /\ Len(chain(m, d.head, TRUE, Cardinality(NodeIds))) = d.len
          /\ chain(m, d.tail, FALSE, Cardinality(NodeIds))
                = Reverse(chain(m, d.head, TRUE, Cardinality(NodeIds)))

\* C19: after every operation that returns, in every state Append, AppendLeft,
\* TryPop, TryPopLeft, Rotate and Clear reach, the list is well formed: the
\* length is 0 exactly when head and tail are nil, and at length >= 2 head.prev
\* and tail.next are nil, the next links from head visit exactly length nodes
\* and the prev links from tail visit the same nodes in reverse.
C19_ListWellFormed ==
    ~panicked => \A i \in DOMAIN dq : WellFormed(mem, dq[i])

\* C20: in every state Append, AppendLeft, TryPop, TryPopLeft and Clear reach,
\* with contents [x0..xk]: when k >= 1 TryPop leaves [x0..x(k-1)] and
\* TryPopLeft leaves [x1..xk], and the node that became the end has its
\* outward link nil; when k = 0 either pop leaves the deque empty with head
\* and tail nil.
C20_PopRemovesEnd ==
    [][LET i == last'.on
           d == dq[i]
           x == Values(mem, d)
           e == dq'[i]
       IN  (last'.op \in {"TryPop", "TryPopLeft"} /\ Len(x) >= 1)
           => /\ ~panicked'
              /\ last'.err = NoErr
              /\ Len(x) >= 2
                 => IF last'.op = "TryPop"
                    THEN /\ Values(mem', e) = SubSeq(x, 1, Len(x) - 1)
                         /\ e.tail # Nil
                         /\ mem'[e.tail].next = Nil
                    ELSE /\ Values(mem', e) = Tail(x)
                         /\ e.head # Nil
                         /\ mem'[e.head].prev = Nil
              /\ Len(x) = 1
                 => /\ Values(mem', e) = <<>>
                    /\ GetLen(e) = 0
                    /\ e.head = Nil
                    /\ e.tail = Nil]_vars

C20_Witness ==
    /\ last.op \in {"TryPop", "TryPopLeft"}
    /\ last.err = NoErr
    /\ GetLen(dq[1]) >= 2
    /\ Len(Contents(1)) = GetLen(dq[1])

\* C15: the insertion and eviction of Append and AppendLeft are atomic to
\* every other operation: no context calling a public operation, GetLen,
\* IsEmpty and IsFull included, ever observes a length greater than the
\* capacity of a bounded deque.
C15_NoOverflowObserved ==
    (seen.by # NoCtx /\ GetCapacity(dq[1]) >= 0)
    => seen.len <= GetCapacity(dq[1])

\* C16: every public operation that reads or writes head, tail or length
\* holds the mutex for its whole duration, GetLen, IsEmpty and IsFull
\* included, so no read of the length happens while another context is
\* inside a mutating operation.
C16_EveryAccessHoldsMutex ==
    /\ \A c \in Contexts : ctx[c].at \in Inside => mutex = c
    /\ seen.by # NoCtx => (seen.locked /\ ~seen.during)

\* C17: while a context consumes an iteration of Values(), no mutating
\* operation of another context gets past its Lock() until the iteration is
\* completed or abandoned, so the elements yielded are the head-to-tail
\* contents the deque had when the iteration started: all of them when the
\* iteration completes, the first ones when it is abandoned.
C17_IterationSeesOneState ==
    \A c \in Contexts :
        (ctx[c].op = "Values" /\ ctx[c].at \in Inside)
        => /\ mutex = c
           /\ \A o \in Contexts \ {c} : ctx[o].at \notin Inside
           /\ Values(mem, dq[1]) = ctx[c].from
           /\ Len(ctx[c].out) <= Len(ctx[c].from)
           /\ ctx[c].out = SubSeq(ctx[c].from, 1, Len(ctx[c].out))
           /\ ctx[c].item = Nil => ctx[c].out = ctx[c].from

C17_Witness ==
    /\ ctx["a"].op = "Values"
    /\ ctx["a"].at = "unlock"
    /\ ctx["a"].item = Nil
    /\ Len(ctx["a"].out) >= 2
    /\ ctx["b"].at = "lock"
    /\ ctx["b"].op \in Mutators

\* C18: the mutating operations are linearizable: the critical sections of
\* Append, AppendLeft, TryPop, TryPopLeft, Clear and Rotate called by
\* concurrent contexts never overlap, and whenever no call is in its critical
\* section the length and the contents are those the same calls give when
\* run one at a time, in the order they took the mutex.
C18_MutatorsLinearizable ==
    /\ \A c \in Contexts : \A o \in Contexts \ {c} :
          ~(ctx[c].at \in Inside /\ ctx[o].at \in Inside)
    /\ panicked => serial.panic
    /\ (~panicked /\ \A c \in Contexts : ctx[c].at \notin Inside)
       => /\ ~serial.panic
          /\ GetLen(dq[1]) = GetLen(serial.d)
          /\ Values(mem, dq[1]) = Values(serial.mem, serial.d)

C18_Witness ==
    /\ ctx["a"].op = "Append"
    /\ ctx["a"].at = "evict"
    /\ isOverflowing(dq[1])
    /\ GetCapacity(dq[1]) >= 1
    /\ ctx["b"].at = "lock"
    /\ ctx["b"].op \in Mutators

\* How a locking call came to return.
ExitPath(call) ==
    IF call.err # NoErr THEN call.err
    ELSE IF call.early THEN "early"
    ELSE IF call.op = "Values" THEN (IF call.item = Nil THEN "completed" ELSE "abandoned")
    ELSE "normal"

\* C21: the mutex is released on every exit path: when TryPop or TryPopLeft
\* returns a PopError, TryPeek a PeekError, Rotate returns early at length
\* < 2, or an iteration of Values() is abandoned or runs to its end, the
\* returning context held the mutex and released it once, and the mutex is
\* free with no context inside a critical section, which is all the Lock() of
\* a waiting context waits for.
C21_MutexFreeAfterReturn ==
    returned.by # NoCtx
    => /\ returned.held
       /\ mutex = NoCtx
       /\ \A c \in Contexts : ctx[c].at \notin Inside

C21_Witness ==
    /\ returned.by = "a"
    /\ ExitPath(returned.call) = "abandoned"
    /\ ctx["b"].at = "lock"
    /\ ctx["b"].op \in Lockers

\* C22: no operation waits for a mutex its own context holds and no cycle of
\* lock waits forms, so under fair scheduling every operation a context has
\* invoked eventually finishes.  (A call that ends in the abort of the
\* program is counted as finished here: aborts are C8's subject.)
C22_EveryCallFinishes ==
    \A c \in Contexts :
        (ctx[c].at # "idle") ~> (ctx[c].at = "idle" \/ panicked)

====
